---- MODULE Spec2Model ----
(***************************************************************************)
(* A model of textcompressor.py: the extension filter, the tree walk and   *)
(* encoder (compress_project), the splitter (write_lines_to_files), the    *)
(* reassembler (combine_multipart_archive) and the decoder                 *)
(* (decompress_project).                                                   *)
(*                                                                         *)
(* Text is a sequence of tokens.  A token is one character ("\n", " ",     *)
(* ">", ".", "/") or an indivisible run of characters that contains none   *)
(* of those five (a word of a file name, a marker constant, a byte that    *)
(* is not valid UTF-8; in INTRODUCTION also a stretch of banner text,      *)
(* whose inner characters no operation looks at).  Every string operation *)
(* of the source that the model uses (strip, rstrip, startswith, slicing   *)
(* by a prefix length, splitext, lower, join, readlines) is computed on    *)
(* the tokens as Python computes it on the characters.                     *)
(***************************************************************************)
EXTENDS Integers, Sequences, FiniteSets, TLC

VARIABLES
    MAX_LINES_PER_FILE, \* the module global of line 9
    fs,                 \* the archive side of the file system: name -> text
    dest,               \* the destination side: [dirs, files], absolute paths
    op,                 \* the operation that produced this state
    args,               \* the arguments of that operation
    ret,                \* what the operation returned or reported
    lines,              \* the list handed to write_lines_to_files
    written,            \* the names write_lines_to_files opened, in order
    runs                \* compress_project runs so far

vars == <<MAX_LINES_PER_FILE, fs, dest, op, args, ret, lines, written, runs>>

----------------------------------------------------------------------------
(* Tokens and Python's string operations                                   *)

NL == "\n"
SP == " "
GT == ">"
DOT == "."
SEP == "/"

\* str.strip() and str.rstrip() without argument remove white space.
Whitespace == {SP, NL}

RECURSIVE LStrip(_, _)
LStrip(s, chars) ==
    IF s # <<>> /\ Head(s) \in chars THEN LStrip(Tail(s), chars) ELSE s

RECURSIVE RStrip(_, _)
RStrip(s, chars) ==
    IF s # <<>> /\ s[Len(s)] \in chars
    THEN RStrip(SubSeq(s, 1, Len(s) - 1), chars)
    ELSE s

Strip(s, chars) == LStrip(RStrip(s, chars), chars)

StartsWith(s, p) == Len(s) >= Len(p) /\ SubSeq(s, 1, Len(p)) = p

EndsWith(s, p) == Len(s) >= Len(p) /\ SubSeq(s, Len(s) - Len(p) + 1, Len(s)) = p

\* s[n:]
DropFirst(s, n) == SubSeq(s, n + 1, Len(s))

\* "".join(list)
RECURSIVE Join(_)
Join(list) == IF list = <<>> THEN <<>> ELSE Head(list) \o Join(Tail(list))

\* The largest index of token c in s, 0 when there is none (str.rfind + 1).
RECURSIVE RFind(_, _)
RFind(s, c) ==
    IF s = <<>> THEN 0
    ELSE IF s[Len(s)] = c THEN Len(s)
    ELSE RFind(SubSeq(s, 1, Len(s) - 1), c)

\* The index of the first line break of s, 0 when there is none.
RECURSIVE FindNL(_, _)
FindNL(s, i) ==
    IF i > Len(s) THEN 0 ELSE IF s[i] = NL THEN i ELSE FindNL(s, i + 1)

\* file.readlines(): the lines of a text, each with its line break, the last
\* one without when the text does not end in a line break.
RECURSIVE ReadLines(_)
ReadLines(text) ==
    IF text = <<>> THEN <<>>
    ELSE LET n == FindNL(text, 1) IN
         IF n = 0 THEN <<text>>
         ELSE <<SubSeq(text, 1, n)>> \o ReadLines(DropFirst(text, n))

\* str.lower() on a token: the words of the model that have upper case letters.
LowerTok(t) ==
    CASE t = "TXT" -> "txt"
      [] t = "Txt" -> "txt"
      [] t = "BUILD" -> "build"
      [] t = "Build" -> "build"
      [] t = "A" -> "a"
      [] OTHER -> t

Lower(s) == [i \in 1..Len(s) |-> LowerTok(s[i])]

\* os.path.splitext (posixpath): the extension starts at the last dot of the
\* last path component, unless only dots precede it in that component.
RECURSIVE OnlyDots(_, _, _)
OnlyDots(p, from, to) ==
    IF from >= to THEN TRUE
    ELSE IF p[from] # DOT THEN FALSE
    ELSE OnlyDots(p, from + 1, to)

\* A split at the last dot wherever it stands, the first character included.
SplitextLastDot(p) ==
    LET sepIndex == RFind(p, SEP)
        dotIndex == RFind(p, DOT)
    IN  IF dotIndex > sepIndex
        THEN <<SubSeq(p, 1, dotIndex - 1), DropFirst(p, dotIndex - 1)>>
        ELSE <<p, <<>>>>

Splitext(p) ==
    LET sepIndex == RFind(p, SEP)
        dotIndex == RFind(p, DOT)
    IN  IF dotIndex > sepIndex /\ ~OnlyDots(p, sepIndex + 1, dotIndex)
        THEN <<SubSeq(p, 1, dotIndex - 1), DropFirst(p, dotIndex - 1)>>
        ELSE <<p, <<>>>>

\* x in list
InList(x, list) == \E i \in 1..Len(list) : list[i] = x

----------------------------------------------------------------------------
(* should_include_file                                                     *)

\* A blacklist that is consulted only when the whitelist is empty.
should_include_file_elif(filename, white_list, black_list) ==
    LET ext == Lower(Splitext(filename)[2]) IN
    IF white_list # <<>>
    THEN InList(ext, [i \in 1..Len(white_list) |-> Lower(white_list[i])])
    ELSE IF black_list # <<>>
    THEN ~InList(ext, [i \in 1..Len(black_list) |-> Lower(black_list[i])])
    ELSE TRUE

should_include_file(filename, white_list, black_list) ==
    LET ext == Lower(Splitext(filename)[2]) IN
    IF white_list # <<>>
          /\ ~InList(ext, [i \in 1..Len(white_list) |-> Lower(white_list[i])])
    THEN FALSE
    ELSE IF black_list # <<>>
          /\ InList(ext, [i \in 1..Len(black_list) |-> Lower(black_list[i])])
    THEN FALSE
    ELSE TRUE

----------------------------------------------------------------------------
(* The archive format                                                      *)

MARKER_PROJECT_START == <<"<<<PROJECT_ARCHIVE_START>>>">>
MARKER_PROJECT_END == <<"<<<PROJECT_ARCHIVE_END>>>">>
MARKER_DIR_PREFIX == <<"<<<DIR:">>
MARKER_FILE_START_PREFIX == <<"<<<FILE_START:">>
MARKER_FILE_END == <<"<<<FILE_END>>>">>
MARKER_FILE_BINARY_START_PREFIX == <<"<<<FILE_BINARY_START:">>
MARKER_FILE_BINARY_END == <<"<<<FILE_BINARY_END>>>">>

\* The banner: eleven lines, three of which quote a marker inside other text.
INTRODUCTION ==
    <<"=== INTRODUCTION ===", NL,
      "This file represents the entire structure of a software project", NL,
      "- The entire directory and file hierarchy", NL,
      "- Text files included in full", NL,
      "- (Binary files are compressed only if enabled)", NL,
      "The markers used are:", NL,
      SP, SP, "(bullet)", SP>> \o MARKER_PROJECT_START
            \o <<": start of the archive", DOT, NL,
      SP, SP, "(bullet)", SP>> \o MARKER_DIR_PREFIX
            \o <<SP, "[relative_path]", SP, GT, GT, GT, ": indicates a directory", DOT, NL,
      SP, SP, "(bullet)", SP>> \o MARKER_FILE_START_PREFIX
            \o <<SP, "[relative_path]", SP, GT, GT, GT, SP, "and", SP>>
            \o MARKER_FILE_END \o <<": delimit a file in text mode", DOT, NL,
      "The file follows this schema", DOT, NL,
      "=====================", NL>>

----------------------------------------------------------------------------
(* Files: a file system is a function from the names that exist to texts   *)

Exists(f, name) == name \in DOMAIN f

\* os.remove(name)
Remove(f, name) == [n \in DOMAIN f \ {name} |-> f[n]]

\* open(name, "w"); truncate(0); write(text)
WriteFile(f, name, text) ==
    [n \in DOMAIN f \cup {name} |-> IF n = name THEN text ELSE f[n]]

\* str(k) for the part numbers the model reaches
Digits == <<"1", "2", "3", "4", "5", "6", "7", "8", "9">>

\* f"{base}_part{k}{ext}" with base, ext = os.path.splitext(output_file)
PartName(output_file, k) ==
    LET se == Splitext(output_file) IN se[1] \o <<"_part", Digits[k]>> \o se[2]

\* Integer division in place of math.ceil.
CeilFloor(a, b) == a \div b

\* math.ceil(a / b) for a >= 0, b > 0
Ceil(a, b) == (a + b - 1) \div b

Min(a, b) == IF a < b THEN a ELSE b

\* lines[start:end], Python's clamped slice of 0-based positions
Slice(list, start, end) == SubSeq(list, start + 1, Min(end, Len(list)))

----------------------------------------------------------------------------
(* write_lines_to_files                                                    *)

\* The names the multipart branch opens, in order.
PartNames(output_file, parts) == [k \in 1..parts |-> PartName(output_file, k)]

\* The loop of lines 89-101, parts first..parts.
RECURSIVE WriteParts(_, _, _, _, _)
WriteParts(f, output_file, list, part, parts) ==
    IF part >= parts THEN f
    ELSE LET start == part * MAX_LINES_PER_FILE
             end == start + MAX_LINES_PER_FILE
         IN  WriteParts(
                 WriteFile(Remove(f, PartName(output_file, part + 1)),
                           PartName(output_file, part + 1),
                           Join(Slice(list, start, end))),
                 output_file, list, part + 1, parts)

\* A splitter that leaves an existing target in place when it writes parts.
write_lines_to_files_keep_target(f, output_file, list) ==
    LET total_lines == Len(list) IN
    IF total_lines <= MAX_LINES_PER_FILE
    THEN WriteFile(f, output_file, Join(list))
    ELSE WriteParts(f, output_file, list, 0,
                    Ceil(total_lines, MAX_LINES_PER_FILE))

write_lines_to_files(f, output_file, list) ==
    LET total_lines == Len(list)
        f1 == IF Exists(f, output_file) THEN Remove(f, output_file) ELSE f
    IN  IF total_lines <= MAX_LINES_PER_FILE
        THEN WriteFile(f1, output_file, Join(list))
        ELSE WriteParts(f1, output_file, list, 0,
                        Ceil(total_lines, MAX_LINES_PER_FILE))

\* The names write_lines_to_files opens for writing, in order.
FilesWritten(output_file, list) ==
    IF Len(list) <= MAX_LINES_PER_FILE
    THEN <<output_file>>
    ELSE PartNames(output_file, Ceil(Len(list), MAX_LINES_PER_FILE))

----------------------------------------------------------------------------
(* combine_multipart_archive                                               *)

None == [found |-> FALSE, lines |-> <<>>]

\* A loop that leaves after the first part.
CombinePartsFirstOnly(f, input_file, part) ==
    IF Exists(f, PartName(input_file, part))
    THEN ReadLines(f[PartName(input_file, part)])
    ELSE <<>>

\* The loop of lines 170-177 from index part on.
RECURSIVE CombineParts(_, _, _)
CombineParts(f, input_file, part) ==
    IF part <= Len(Digits) /\ Exists(f, PartName(input_file, part))
    THEN ReadLines(f[PartName(input_file, part)])
            \o CombineParts(f, input_file, part + 1)
    ELSE <<>>

\* A reassembler that looks for the parts before the requested path.
combine_parts_first(f, input_file) ==
    LET combined_lines == CombineParts(f, input_file, 1) IN
    IF combined_lines # <<>>
    THEN [found |-> TRUE, lines |-> combined_lines]
    ELSE IF Exists(f, input_file)
    THEN [found |-> TRUE, lines |-> ReadLines(f[input_file])]
    ELSE None

combine_multipart_archive(f, input_file) ==
    IF Exists(f, input_file)
    THEN [found |-> TRUE, lines |-> ReadLines(f[input_file])]
    ELSE LET combined_lines == CombineParts(f, input_file, 1) IN
         IF combined_lines # <<>>
         THEN [found |-> TRUE, lines |-> combined_lines]
         ELSE None

----------------------------------------------------------------------------
(* Paths and the destination side of the file system                       *)
(* dest.dirs is the set of directories that exist, dest.files the function *)
(* from the files that exist to their texts; both are keyed by the         *)
(* sequence of the path's components from the file system's root.          *)

\* os.path.join(a, b) (posixpath)
PathJoin(a, b) ==
    IF StartsWith(b, <<SEP>>) THEN b
    ELSE IF a = <<>> \/ EndsWith(a, <<SEP>>) THEN a \o b
    ELSE a \o <<SEP>> \o b

\* os.path.dirname(p) (posixpath)
Dirname(p) ==
    LET head == SubSeq(p, 1, RFind(p, SEP)) IN
    IF head # <<>> /\ RStrip(head, {SEP}) # <<>> THEN RStrip(head, {SEP}) ELSE head

\* The components a path string names, as the kernel resolves it from the
\* working directory: empty components and "." are skipped, ".." steps back
\* to the parent.  An absolute path starts at the root, the component
\* <<SEP>>, and a path that climbs above the working directory keeps its
\* leading ".." components.
RECURSIVE Components(_, _)
Components(p, acc) ==
    IF p = <<>> THEN acc
    ELSE LET n == IF InList(SEP, p) THEN CHOOSE i \in 1..Len(p) :
                        p[i] = SEP /\ \A j \in 1..(i - 1) : p[j] # SEP
                   ELSE Len(p) + 1
             seg == SubSeq(p, 1, n - 1)
             rest == DropFirst(p, n)
         IN  IF seg = <<>> \/ seg = <<DOT>> THEN Components(rest, acc)
             ELSE IF seg = <<DOT, DOT>>
             THEN IF acc = <<>> \/ acc[Len(acc)] = <<DOT, DOT>>
                  THEN Components(rest, Append(acc, seg))
                  ELSE IF acc = << <<SEP>> >> THEN Components(rest, acc)
                  ELSE Components(rest, SubSeq(acc, 1, Len(acc) - 1))
             ELSE Components(rest, Append(acc, seg))

Resolve(p) == Components(p, IF StartsWith(p, <<SEP>>) THEN << <<SEP>> >> ELSE <<>>)

EmptyDest == [dirs |-> {}, files |-> <<>>]

Prefixes(c) == {SubSeq(c, 1, k) : k \in 1..Len(c)}

\* The directories that exist whatever the destination holds: the working
\* directory, its ancestors and the root.
Preexisting(c) == \A k \in 1..Len(c) : c[k] \in {<<SEP>>, <<DOT, DOT>>}

\* The directories os.makedirs(p) visits: p cut after each of its
\* components, head first (the recursion on os.path.split).
MakedirsPath(p) ==
    { Resolve(SubSeq(p, 1, k)) :
        k \in {j \in 1..Len(p) : j = Len(p) \/ p[j + 1] = SEP} }

\* os.makedirs(p) without exist_ok: FileExistsError also when p is a
\* directory that exists.
MakedirsRaisesNoExistOk(d, p) ==
    \/ \E c \in MakedirsPath(p) : c \in DOMAIN d.files
    \/ Resolve(p) \in d.dirs
    \/ Preexisting(Resolve(p))

\* os.makedirs(p, exist_ok=True): FileExistsError or NotADirectoryError when
\* a component of p is a file.
MakedirsRaises(d, p) == \E c \in MakedirsPath(p) : c \in DOMAIN d.files

Makedirs(d, p) ==
    [d EXCEPT !.dirs = @ \cup {c \in MakedirsPath(p) : ~Preexisting(c)}]

\* open(p, "w"): IsADirectoryError when p is a directory (or ends in a
\* separator), FileNotFoundError when its directory does not exist.
OpenRaises(d, p) ==
    \/ Resolve(p) \in d.dirs
    \/ Preexisting(Resolve(p))
    \/ EndsWith(p, <<SEP>>)
    \/ LET parent == SubSeq(Resolve(p), 1, Len(Resolve(p)) - 1) IN
          parent \notin d.dirs /\ ~Preexisting(parent)
    \/ \E c \in Prefixes(Resolve(p)) : c # Resolve(p) /\ c \in DOMAIN d.files

WriteDest(d, p, text) ==
    [d EXCEPT !.files = [n \in DOMAIN d.files \cup {Resolve(p)} |->
                            IF n = Resolve(p) THEN text ELSE d.files[n]]]

----------------------------------------------------------------------------
(* decompress_project                                                      *)

\* The loop of lines 193-197: the 0-based index of the first line that is the
\* start marker once stripped, and 0 when there is none.
RECURSIVE FindStart(_, _)
FindStart(list, idx) ==
    IF idx >= Len(list) THEN 0
    ELSE IF Strip(list[idx + 1], Whitespace) = MARKER_PROJECT_START THEN idx
    ELSE FindStart(list, idx + 1)

\* The loop of lines 219-221: the first index from i on whose line is the
\* FileEnd marker once stripped, len(lines) when there is none.
RECURSIVE ContentEnd(_, _)
ContentEnd(list, i) ==
    IF i < Len(list) /\ Strip(list[i + 1], Whitespace) # MARKER_FILE_END
    THEN ContentEnd(list, i + 1)
    ELSE i

\* A loop that takes the ProjectEnd line for one more line to skip.
RECURSIVE ScanPastEnd(_, _, _, _)
ScanPastEnd(list, i, d, output_dir) ==
    IF i >= Len(list) THEN [status |-> "complete", dest |-> d]
    ELSE
    LET line == RStrip(list[i + 1], {NL}) IN
    IF line = MARKER_PROJECT_END THEN ScanPastEnd(list, i + 1, d, output_dir)
    ELSE IF StartsWith(line, MARKER_DIR_PREFIX)
    THEN LET dir_path == Strip(DropFirst(line, Len(MARKER_DIR_PREFIX)), {SP, GT})
             full_dir == PathJoin(output_dir, dir_path)
         IN  IF MakedirsRaises(d, full_dir)
             THEN [status |-> "raised", dest |-> d]
             ELSE ScanPastEnd(list, i + 1, Makedirs(d, full_dir), output_dir)
    ELSE IF StartsWith(line, MARKER_FILE_START_PREFIX)
    THEN LET rel_file_path ==
                 Strip(DropFirst(line, Len(MARKER_FILE_START_PREFIX)), {SP, GT})
             full_file_path == PathJoin(output_dir, rel_file_path)
             d1 == Makedirs(d, Dirname(full_file_path))
             j == ContentEnd(list, i + 1)
             content_lines == Slice(list, i + 1, j)
         IN  IF MakedirsRaises(d, Dirname(full_file_path))
             THEN [status |-> "raised", dest |-> d]
             ELSE IF OpenRaises(d1, full_file_path)
             THEN [status |-> "raised", dest |-> d1]
             ELSE ScanPastEnd(list, j + 1,
                       WriteDest(d1, full_file_path, Join(content_lines)),
                       output_dir)
    ELSE ScanPastEnd(list, i + 1, d, output_dir)

\* The loop of lines 204-226 from index i on, on destination d.
RECURSIVE Scan(_, _, _, _)
Scan(list, i, d, output_dir) ==
    IF i >= Len(list) THEN [status |-> "complete", dest |-> d]
    ELSE
    LET line == RStrip(list[i + 1], {NL}) IN
    IF line = MARKER_PROJECT_END THEN [status |-> "complete", dest |-> d]
    ELSE IF StartsWith(line, MARKER_DIR_PREFIX)
    THEN LET dir_path == Strip(DropFirst(line, Len(MARKER_DIR_PREFIX)), {SP, GT})
             full_dir == PathJoin(output_dir, dir_path)
         IN  IF MakedirsRaises(d, full_dir)
             THEN [status |-> "raised", dest |-> d]
             ELSE Scan(list, i + 1, Makedirs(d, full_dir), output_dir)
    ELSE IF StartsWith(line, MARKER_FILE_START_PREFIX)
    THEN LET rel_file_path ==
                 Strip(DropFirst(line, Len(MARKER_FILE_START_PREFIX)), {SP, GT})
             full_file_path == PathJoin(output_dir, rel_file_path)
             d1 == Makedirs(d, Dirname(full_file_path))
             j == ContentEnd(list, i + 1)
             content_lines == Slice(list, i + 1, j)
         IN  IF MakedirsRaises(d, Dirname(full_file_path))
             THEN [status |-> "raised", dest |-> d]
             ELSE IF OpenRaises(d1, full_file_path)
             THEN [status |-> "raised", dest |-> d1]
             ELSE Scan(list, j + 1,
                       WriteDest(d1, full_file_path, Join(content_lines)),
                       output_dir)
    ELSE Scan(list, i + 1, d, output_dir)

\* A decoder that creates the destination root before it reads the archive.
decompress_project_mkdir_first(f, d, input_file, output_dir) ==
    LET found == combine_multipart_archive(f, input_file)
        start_index == FindStart(found.lines, 0)
        d0 == Makedirs(d, output_dir)
    IN  IF ~found.found THEN [status |-> "not_found", dest |-> d0]
        ELSE IF start_index = 0 THEN [status |-> "invalid_format", dest |-> d0]
        ELSE Scan(found.lines, start_index + 1, d0, output_dir)

decompress_project(f, d, input_file, output_dir) ==
    LET found == combine_multipart_archive(f, input_file)
        start_index == FindStart(found.lines, 0)
    IN  IF ~found.found THEN [status |-> "not_found", dest |-> d]
        ELSE IF start_index = 0 THEN [status |-> "invalid_format", dest |-> d]
        ELSE Scan(found.lines, start_index + 1, d, output_dir)

----------------------------------------------------------------------------
(* compress_project                                                        *)
(* A source tree is a function from the path of each directory (the        *)
(* sequence of names below input_dir) to [sub, files]: the names of its    *)
(* subdirectories and its files [name, bytes], both in os.listdir order.   *)

\* The bytes of the model that no UTF-8 text contains.
InvalidUtf8 == {"0xFF", "0x80"}

\* open(path, "r", encoding="utf-8").read() raises UnicodeDecodeError
DecodeRaises(bytes) == \E i \in 1..Len(bytes) : bytes[i] \in InvalidUtf8

\* The value of a byte of a file that is not text.
ByteVal(b) ==
    CASE b = "0xFF" -> 255
      [] b = "0x80" -> 128
      [] b = "a" -> 97
      [] b = NL -> 10

B64Alphabet ==
    <<"A", "B", "C", "D", "E", "F", "G", "H", "I", "J", "K", "L", "M",
      "N", "O", "P", "Q", "R", "S", "T", "U", "V", "W", "X", "Y", "Z",
      "a", "b", "c", "d", "e", "f", "g", "h", "i", "j", "k", "l", "m",
      "n", "o", "p", "q", "r", "s", "t", "u", "v", "w", "x", "y", "z",
      "0", "1", "2", "3", "4", "5", "6", "7", "8", "9", "+", "/">>

B64Char(n) == B64Alphabet[n + 1]

\* base64.b64encode(bytes).decode('ascii')
RECURSIVE B64Encode(_)
B64Encode(bs) ==
    IF bs = <<>> THEN <<>>
    ELSE IF Len(bs) = 1
    THEN LET n == ByteVal(bs[1]) * 16 IN
         <<B64Char(n \div 64), B64Char(n % 64), "=", "=">>
    ELSE IF Len(bs) = 2
    THEN LET n == (ByteVal(bs[1]) * 256 + ByteVal(bs[2])) * 4 IN
         <<B64Char(n \div 4096), B64Char((n \div 64) % 64), B64Char(n % 64), "=">>
    ELSE LET n == ByteVal(bs[1]) * 65536 + ByteVal(bs[2]) * 256 + ByteVal(bs[3]) IN
         <<B64Char(n \div 262144), B64Char((n \div 4096) % 64),
           B64Char((n \div 64) % 64), B64Char(n % 64)>>
            \o B64Encode(DropFirst(bs, 3))

\* os.path.relpath(root, input_dir), "." replaced by ""
RECURSIVE RelDir(_)
RelDir(path) ==
    IF path = <<>> THEN <<>>
    ELSE IF Len(path) = 1 THEN path[1]
    ELSE path[1] \o <<SEP>> \o RelDir(Tail(path))

DirLine(rel_dir) == MARKER_DIR_PREFIX \o <<SP>> \o rel_dir \o <<SP, GT, GT, GT, NL>>

FileStartLine(rel_file_path) ==
    MARKER_FILE_START_PREFIX \o <<SP>> \o rel_file_path \o <<SP, GT, GT, GT, NL>>

BinaryStartLine(rel_file_path) ==
    MARKER_FILE_BINARY_START_PREFIX \o <<SP>> \o rel_file_path \o <<SP, GT, GT, GT, NL>>

\* An encoder that appends the FileStart line before it reads the file, so
\* that a failed read leaves the line behind.
EncodeFileHeaderFirst(file, rel_dir, white_list, black_list, compress_binary) ==
    LET rel_file_path == PathJoin(rel_dir, file.name) IN
    IF ~should_include_file(file.name, white_list, black_list) THEN <<>>
    ELSE IF ~DecodeRaises(file.bytes)
    THEN <<FileStartLine(rel_file_path),
           file.bytes \o <<NL>>,
           MARKER_FILE_END \o <<NL>>>>
    ELSE IF compress_binary
    THEN <<FileStartLine(rel_file_path),
           BinaryStartLine(rel_file_path),
           B64Encode(file.bytes) \o <<NL>>,
           MARKER_FILE_BINARY_END \o <<NL>>>>
    ELSE <<FileStartLine(rel_file_path)>>

\* Lines 132-154 for one file of a directory.
EncodeFile(file, rel_dir, white_list, black_list, compress_binary) ==
    LET rel_file_path == PathJoin(rel_dir, file.name) IN
    IF ~should_include_file(file.name, white_list, black_list) THEN <<>>
    ELSE IF ~DecodeRaises(file.bytes)
    THEN <<FileStartLine(rel_file_path),
           file.bytes \o <<NL>>,
           MARKER_FILE_END \o <<NL>>>>
    ELSE IF compress_binary
    THEN <<BinaryStartLine(rel_file_path),
           B64Encode(file.bytes) \o <<NL>>,
           MARKER_FILE_BINARY_END \o <<NL>>>>
    ELSE <<>>

\* The loop of lines 131-154.
RECURSIVE EncodeFiles(_, _, _, _, _)
EncodeFiles(files, rel_dir, white_list, black_list, compress_binary) ==
    IF files = <<>> THEN <<>>
    ELSE EncodeFile(Head(files), rel_dir, white_list, black_list, compress_binary)
            \o EncodeFiles(Tail(files), rel_dir, white_list, black_list, compress_binary)

\* A blacklist test that compares the name as it is spelled.
KeepDirCaseSensitive(d, black_list) == ~InList(d, black_list)

\* Line 124: dirs[:] = the subdirectories whose name is not in the blacklist.
KeepDir(d, black_list) ==
    ~InList(Lower(d), [i \in 1..Len(black_list) |-> Lower(black_list[i])])

PruneDirs(dirs, black_list) ==
    LET Keep(d) == KeepDir(d, black_list) IN SelectSeq(dirs, Keep)

\* os.walk(input_dir), top down, from directory path on: the lines of the
\* directory, then those of each subdirectory left in dirs.
RECURSIVE WalkLines(_, _, _, _, _)
RECURSIVE WalkDirs(_, _, _, _, _, _)
WalkLines(tree, path, white_list, black_list, compress_binary) ==
    <<DirLine(RelDir(path))>>
        \o EncodeFiles(tree[path].files, RelDir(path),
                       white_list, black_list, compress_binary)
        \o WalkDirs(tree, path, PruneDirs(tree[path].sub, black_list),
                    white_list, black_list, compress_binary)

WalkDirs(tree, path, dirs, white_list, black_list, compress_binary) ==
    IF dirs = <<>> THEN <<>>
    ELSE WalkLines(tree, Append(path, Head(dirs)),
                   white_list, black_list, compress_binary)
            \o WalkDirs(tree, path, Tail(dirs),
                        white_list, black_list, compress_binary)

\* output_lines of lines 118-155
OutputLines(tree, white_list, black_list, compress_binary) ==
    <<INTRODUCTION \o <<NL>>, MARKER_PROJECT_START \o <<NL>>>>
        \o WalkLines(tree, <<>>, white_list, black_list, compress_binary)
        \o <<MARKER_PROJECT_END \o <<NL>>>>

compress_project(f, tree, output_file, white_list, black_list, compress_binary) ==
    write_lines_to_files(f, output_file,
        OutputLines(tree, white_list, black_list, compress_binary))

----------------------------------------------------------------------------
(* Inputs                                                                  *)

\* The sequences over S of length at most n.
SeqsUpTo(S, n) == UNION {[1..k -> S] : k \in 0..n}

File(name, bytes) == [name |-> name, bytes |-> bytes]
Dir(sub, files) == [sub |-> sub, files |-> files]

output_file == <<"X", DOT, "txt">>
output_dir == <<"out">>

\* MAX_LINES_PER_FILE is 4000 in the source; the tree specifications run it
\* at 4, so that an archive of one to three files spans one to three parts.
ScaledMaxLines == 4

\* A second scale for the same threshold, above the line count of the
\* banner, as the source's 4000 is.
WideMaxLines == 4 * ScaledMaxLines

\* What every operation leaves in the variables it does not use.
NoArgs == [none |-> TRUE]
NoRet == [none |-> TRUE]

----------------------------------------------------------------------------
(* The filter alone: should_include_file on every name and pair of lists   *)

MaxList == 2

FilterNames ==
    { <<"a", DOT, "txt">>, <<"a", DOT, "TXT">>, <<"A", DOT, "Txt">>,
      <<"a", DOT, "py">>, <<"a">>, <<"build">>, <<DOT, "txt">>,
      <<"a", DOT, "py", DOT, "txt">>, <<"a", DOT>>,
      <<DOT, DOT, "txt">>, <<DOT, "a", DOT, "TXT">> }

FilterEntries == { <<DOT, "txt">>, <<DOT, "TXT">>, <<"build">> }

FilterInit ==
    /\ MAX_LINES_PER_FILE = ScaledMaxLines
    /\ fs = <<>>
    /\ dest = EmptyDest
    /\ op = "init"
    /\ args \in [filename : FilterNames,
                 white_list : SeqsUpTo(FilterEntries, MaxList),
                 black_list : SeqsUpTo(FilterEntries, MaxList)]
    /\ ret = NoRet
    /\ lines = <<>>
    /\ written = <<>>
    /\ runs = 0

FilterCall ==
    /\ op = "init"
    /\ op' = "filter"
    /\ ret' = [include |->
                 should_include_file(args.filename, args.white_list, args.black_list)]
    /\ UNCHANGED <<MAX_LINES_PER_FILE, fs, dest, args, lines, written, runs>>

FilterNext == FilterCall

SpecFilter == FilterInit /\ [][FilterNext]_vars

C14_Decision(ext) ==
    LET wl == {Lower(args.white_list[i]) : i \in 1..Len(args.white_list)}
        bl == {Lower(args.black_list[i]) : i \in 1..Len(args.black_list)}
    IN  (wl = {} \/ Lower(ext) \in wl) /\ Lower(ext) \notin bl

\* The index of the last dot of the name, 0 when it has none.
C14_LastDot ==
    IF \E i \in 1..Len(args.filename) : args.filename[i] = DOT
    THEN CHOOSE i \in 1..Len(args.filename) :
            /\ args.filename[i] = DOT
            /\ \A j \in (i + 1)..Len(args.filename) : args.filename[j] # DOT
    ELSE 0

\* C14 as stated: the extension should_include_file compares is the
\* substring from the last dot of the name to its end, lower-cased, and the
\* empty string when the name has no dot, also for a name whose only dot is
\* its first character.
C14_Original ==
    op = "filter" =>
        (ret.include <=>
            C14_Decision(IF C14_LastDot = 0 THEN <<>>
                         ELSE SubSeq(args.filename, C14_LastDot, Len(args.filename))))

\* C14 (amended): the extension compared is the substring from the last dot
\* of the name to its end, lower-cased, when a character other than a dot
\* comes before that dot, and the empty string otherwise: when the name has
\* no dot, and when its last dot is its first character or has only dots
\* before it (.txt, .gitignore, ..txt).
C14_ExtensionRule ==
    op = "filter" =>
        (ret.include <=>
            C14_Decision(IF \E j \in 1..(C14_LastDot - 1) : args.filename[j] # DOT
                         THEN SubSeq(args.filename, C14_LastDot, Len(args.filename))
                         ELSE <<>>))

\* The file named .txt has been refused under the whitelist [.txt].
C14_Witness ==
    /\ op = "filter"
    /\ args.filename = <<DOT, "txt">>
    /\ args.white_list = << <<DOT, "txt">> >>
    /\ args.black_list = <<>>
    /\ ~ret.include

----------------------------------------------------------------------------
(* The splitter alone: write_lines_to_files on every list of entries and   *)
(* every threshold, then decompress_project on what it wrote               *)

MaxBody == 3
MaxThreshold == 3

ProjectStartLine == MARKER_PROJECT_START \o <<NL>>
ProjectEndLine == MARKER_PROJECT_END \o <<NL>>
FileEndLine == MARKER_FILE_END \o <<NL>>

\* Entries as compress_project appends them: each ends in a line break, and
\* the content entry of a file holds several lines.
SplitBodyPool ==
    { DirLine(<<"sub">>),
      FileStartLine(<<"sub", SEP, "a", DOT, "txt">>),
      <<"a", NL, "b", NL>>,
      FileEndLine,
      ProjectEndLine }

SplitLists ==
    { pre \o body :
        pre \in { <<>>, <<INTRODUCTION \o <<NL>>, ProjectStartLine>> },
        body \in SeqsUpTo(SplitBodyPool, MaxBody) }

SplitInit ==
    /\ MAX_LINES_PER_FILE \in 1..MaxThreshold
    /\ fs = <<>>
    /\ dest = EmptyDest
    /\ op = "init"
    /\ args = NoArgs
    /\ ret = NoRet
    /\ lines \in SplitLists
    /\ written = <<>>
    /\ runs = 0

SplitWrite ==
    /\ op = "init"
    /\ op' = "write"
    /\ fs' = write_lines_to_files(fs, output_file, lines)
    /\ written' = FilesWritten(output_file, lines)
    /\ UNCHANGED <<MAX_LINES_PER_FILE, dest, args, ret, lines, runs>>

SplitDecompress ==
    /\ op = "write"
    /\ op' = "decompress"
    /\ LET r == decompress_project(fs, dest, output_file, output_dir) IN
        /\ dest' = r.dest
        /\ ret' = [status |-> r.status]
    /\ UNCHANGED <<MAX_LINES_PER_FILE, fs, args, lines, written, runs>>

SplitNext == SplitWrite \/ SplitDecompress

SpecSplit == SplitInit /\ [][SplitNext]_vars

\* What C3 says of K files written for L entries under threshold N.
C3_Exact(K) ==
    LET L == Len(lines)
        N == MAX_LINES_PER_FILE
        last == IF L % N = 0 THEN N ELSE L % N
        name(k) == <<"X", "_part", Digits[k], DOT, "txt">>
    IN  /\ Len(written) = K
        /\ DOMAIN fs = {written[k] : k \in 1..Len(written)}
        /\ L <= N => written = <<output_file>> /\ fs[output_file] = Join(lines)
        /\ L > N =>
              /\ \A k \in 1..K : written[k] = name(k)
              /\ \A k \in 1..(K - 1) :
                    fs[name(k)] = Join(SubSeq(lines, (k - 1) * N + 1, k * N))
              /\ fs[name(K)] = Join(SubSeq(lines, L - last + 1, L))
              /\ Join([k \in 1..K |-> fs[name(k)]]) = Join(lines)

\* C3 as stated: write_lines_to_files writes exactly ceil(L/N) files for
\* every list of L entries.
C3_Original ==
    op = "write" =>
        C3_Exact((Len(lines) + MAX_LINES_PER_FILE - 1) \div MAX_LINES_PER_FILE)

\* C3 (amended): write_lines_to_files writes exactly ceil(L/N) files when
\* L >= 1 and one empty file, the target path, when L = 0; when L <= N the
\* file is the target path, otherwise the files are base_part1..base_partK,
\* part k holding exactly entries [(k-1)*N, k*N), the last one L mod N of
\* them (N when N divides L), and the parts concatenated in ascending suffix
\* order are the input.
C3_SplitterExact ==
    op = "write" =>
        IF lines = <<>>
        THEN written = <<output_file>> /\ fs = (output_file :> <<>>)
        ELSE C3_Exact((Len(lines) + MAX_LINES_PER_FILE - 1) \div MAX_LINES_PER_FILE)

\* Five entries under threshold 2 have been written as three parts.
C3_Witness ==
    /\ op = "write"
    /\ Len(lines) = 5
    /\ MAX_LINES_PER_FILE = 2
    /\ Len(written) = 3
    /\ fs[written[3]] = lines[5]

\* C5: decompress_project restores from the part files that
\* write_lines_to_files wrote for a line sequence exactly what it restores
\* from the same sequence stored as one file, for every sequence and
\* threshold.
C5_ReassemblyEquivalence ==
    op = "decompress" =>
        [status |-> ret.status, dest |-> dest]
            = decompress_project((output_file :> Join(lines)), EmptyDest,
                                 output_file, output_dir)

\* A file whose block was cut by a part boundary has been restored whole.
C5_Witness ==
    /\ op = "decompress"
    /\ Len(written) = 3
    /\ ret.status = "complete"
    /\ <<output_dir, <<"sub">>, <<"a", DOT, "txt">>>> \in DOMAIN dest.files
    /\ dest.files[<<output_dir, <<"sub">>, <<"a", DOT, "txt">>>>] = <<"a", NL, "b", NL>>

----------------------------------------------------------------------------
(* The reassembler and the decoder on any archive files: every choice of   *)
(* which of the requested path and its parts 1..MaxPart exist, each with   *)
(* one of the texts below, and a destination that is empty or not          *)

MaxPart == 3

ArchiveNames == {output_file} \cup {PartName(output_file, k) : k \in 1..MaxPart}

\* A banner line, the start marker, a directory and the head of a file block.
TextHead ==
    <<"banner", NL>> \o ProjectStartLine \o DirLine(<<"sub">>)
        \o FileStartLine(<<"sub", SEP, "a", DOT, "txt">>) \o <<"hello", NL>>

\* The end of a file block and the end marker.
TextTail == <<"world", NL>> \o FileEndLine \o ProjectEndLine

\* A whole archive whose very first line is the start marker.
TextNoBanner ==
    ProjectStartLine \o DirLine(<<"sub">>)
        \o FileStartLine(<<"b", DOT, "txt">>) \o <<"x", NL>>
        \o FileEndLine \o ProjectEndLine

\* Marker lines with no start marker before them.
TextNoStart == <<"banner", NL>> \o DirLine(<<"stale">>)

\* An archive that names sub twice, a directory above the destination and a
\* file by an absolute path.
TextEscape ==
    <<"banner", NL>> \o ProjectStartLine
        \o DirLine(<<"sub">>) \o DirLine(<<"sub">>)
        \o DirLine(<<DOT, DOT, SEP, "evil">>)
        \o FileStartLine(<<SEP, "abs", SEP, "f">>) \o <<"x", NL>>
        \o FileEndLine \o ProjectEndLine

ArchiveTexts == {<<>>, TextHead, TextTail, TextNoBanner, TextNoStart, TextEscape}

\* A destination that already holds sub/a.txt.
OldDest ==
    [dirs |-> {<<output_dir>>, <<output_dir, <<"sub">>>>},
     files |-> (<<output_dir, <<"sub">>, <<"a", DOT, "txt">>>> :> <<"old", NL>>)]

DecodeInit ==
    /\ MAX_LINES_PER_FILE = ScaledMaxLines
    /\ fs \in UNION {[S -> ArchiveTexts] : S \in SUBSET ArchiveNames}
    /\ dest \in {EmptyDest, OldDest}
    /\ op = "init"
    /\ args = NoArgs
    /\ ret = NoRet
    /\ lines = <<>>
    /\ written = <<>>
    /\ runs = 0

DecodeCombine ==
    /\ op = "init"
    /\ op' = "combine"
    /\ ret' = combine_multipart_archive(fs, output_file)
    /\ UNCHANGED <<MAX_LINES_PER_FILE, fs, dest, args, lines, written, runs>>

DecodeDecompress ==
    /\ op = "init"
    /\ op' = "decompress"
    /\ LET r == decompress_project(fs, dest, output_file, output_dir) IN
        /\ dest' = r.dest
        /\ ret' = [status |-> r.status]
    /\ UNCHANGED <<MAX_LINES_PER_FILE, fs, args, lines, written, runs>>

\* A second decompress_project of the same archive into the destination the
\* first one left.
DecodeAgain ==
    /\ op = "decompress"
    /\ op' = "again"
    /\ LET r == decompress_project(fs, dest, output_file, output_dir) IN
        /\ dest' = r.dest
        /\ ret' = [status |-> r.status]
    /\ UNCHANGED <<MAX_LINES_PER_FILE, fs, args, lines, written, runs>>

DecodeNext == DecodeCombine \/ DecodeDecompress \/ DecodeAgain

SpecDecode == DecodeInit /\ [][DecodeNext]_vars

\* C8 as stated: decompress_project reports an invalid format exactly when no
\* line of the resolved sequence is the ProjectStart marker, the first line
\* included.
C8_StartMarkerDetection ==
    (op = "decompress" /\ ret.status # "not_found") =>
        LET resolved == combine_multipart_archive(fs, output_file).lines IN
        (ret.status = "invalid_format")
            <=> ~\E i \in 1..Len(resolved) :
                    Strip(resolved[i], Whitespace) = MARKER_PROJECT_START

\* C9: a decompress_project that ends with archive-not-found or with
\* invalid-format has created no directory and written or changed no file:
\* the destination is what it was before the call.
C9_FatalErrorsLeaveDestination ==
    [][(op' = "decompress" /\ ret'.status \in {"not_found", "invalid_format"})
          => dest' = dest]_vars

\* Both fatal outcomes are reached: here invalid-format, on a destination
\* that held a file before the call.
C9_Witness ==
    /\ op = "decompress"
    /\ ret.status = "invalid_format"
    /\ fs = (output_file :> TextNoStart)
    /\ dest = OldDest

\* The part names of C10, written out.
C10_Part(k) == <<"X", "_part", Digits[k], DOT, "txt">>

\* C10: combine_multipart_archive(p) returns the lines of p alone whenever p
\* exists, whatever parts exist; otherwise the lines of parts 1..k in
\* ascending order, k being the largest index such that parts 1..k all exist
\* (None standing for no lines at all), so no part after a missing index is
\* read.
C10_ResolutionOrder ==
    op = "combine" =>
        IF output_file \in DOMAIN fs
        THEN ret = [found |-> TRUE, lines |-> ReadLines(fs[output_file])]
        ELSE LET k == CHOOSE j \in 0..MaxPart :
                        /\ \A i \in 1..j : C10_Part(i) \in DOMAIN fs
                        /\ j < MaxPart => C10_Part(j + 1) \notin DOMAIN fs
             IN  /\ ret.lines = Join([i \in 1..k |-> ReadLines(fs[C10_Part(i)])])
                 /\ ret.found <=> ret.lines # <<>>

\* Parts 1 and 3 exist and part 2 does not: the lines of part 1 alone came
\* back.
C10_Witness ==
    /\ op = "combine"
    /\ DOMAIN fs = {C10_Part(1), C10_Part(3)}
    /\ fs[C10_Part(1)] = TextHead
    /\ fs[C10_Part(3)] = TextTail
    /\ ret = [found |-> TRUE, lines |-> ReadLines(TextHead)]

\* The lines decompress_project reads for the requested path.
Resolved == combine_multipart_archive(fs, output_file).lines

\* The destination path that the FileStart line names.
FileStartPath(line) ==
    Resolve(PathJoin(output_dir,
        Strip(DropFirst(RStrip(line, {NL}), Len(MARKER_FILE_START_PREFIX)),
              {SP, GT})))

\* C15 as stated: decompress_project writes a file only when a FileEnd line
\* closes its block, with exactly the lines between the FileStart line and
\* that FileEnd line; a block that the end of the input leaves open creates
\* and overwrites no file.
C15_WrittenOnlyOnFileEnd ==
    [][op' \in {"decompress", "again"} =>
        \A p \in DOMAIN dest'.files :
            (p \notin DOMAIN dest.files \/ dest'.files[p] # dest.files[p]) =>
                \E s \in 1..Len(Resolved), e \in 1..Len(Resolved) :
                    /\ s < e
                    /\ StartsWith(Resolved[s], MARKER_FILE_START_PREFIX)
                    /\ FileStartPath(Resolved[s]) = p
                    /\ Strip(Resolved[e], Whitespace) = MARKER_FILE_END
                    /\ \A k \in (s + 1)..(e - 1) :
                          Strip(Resolved[k], Whitespace) # MARKER_FILE_END
                    /\ dest'.files[p] = Join(SubSeq(Resolved, s + 1, e - 1))]_vars

\* The 1-based index of the first ProjectEnd line from index i on that lies
\* outside every file block, 0 when there is none.
RECURSIVE C16_End(_, _, _)
C16_End(list, i, inside) ==
    IF i > Len(list) THEN 0
    ELSE IF inside
    THEN C16_End(list, i + 1, Strip(list[i], Whitespace) # MARKER_FILE_END)
    ELSE IF RStrip(list[i], {NL}) = MARKER_PROJECT_END THEN i
    ELSE C16_End(list, i + 1, StartsWith(list[i], MARKER_FILE_START_PREFIX))

\* C16: once decompress_project has met the ProjectEnd line outside a file
\* block, no later line changes anything: the outcome and the destination
\* are those of the same call on the lines up to that ProjectEnd line alone.
C16_DoneIsTerminal ==
    [][(op' = "decompress" /\ ret'.status \in {"complete", "raised"}) =>
        LET e == C16_End(Resolved, FindStart(Resolved, 0) + 2, FALSE) IN
        e # 0 =>
            [status |-> ret'.status, dest |-> dest']
                = decompress_project((output_file :> Join(SubSeq(Resolved, 1, e))),
                                     dest, output_file, output_dir)]_vars

\* Parts 1 and 2 hold a whole archive and part 3 a stale one with b.txt:
\* sub/a.txt has been restored and b.txt has not.
C16_Witness ==
    /\ op = "decompress"
    /\ DOMAIN fs = {C10_Part(1), C10_Part(2), C10_Part(3)}
    /\ fs[C10_Part(1)] = TextHead
    /\ fs[C10_Part(2)] = TextTail
    /\ fs[C10_Part(3)] = TextNoBanner
    /\ ret.status = "complete"
    /\ dest.dirs = {<<output_dir>>, <<output_dir, <<"sub">>>>}
    /\ dest.files = (<<output_dir, <<"sub">>, <<"a", DOT, "txt">>>>
                        :> <<"hello", NL, "world", NL>>)

\* C17 as stated: every directory decompress_project creates and every file
\* it writes lies inside output_dir, whatever path a Dir or FileStart line
\* carries.
C17_WritesUnderRoot ==
    op \in {"decompress", "again"} =>
        \A p \in dest.dirs \cup DOMAIN dest.files :
            Len(p) >= 1 /\ p[1] = output_dir

\* C18: an archive in which a Dir line occurs twice decodes without failure,
\* and a second decompress_project of the same archive into the same
\* destination succeeds and leaves the destination as the first run left it.
C18_DecodeIdempotence ==
    [][/\ (/\ op' \in {"decompress", "again"}
           /\ \E i, j \in 1..Len(Resolved) :
                 /\ i < j
                 /\ StartsWith(Resolved[i], MARKER_DIR_PREFIX)
                 /\ Resolved[i] = Resolved[j])
          => ret'.status # "raised"
       /\ (op = "decompress" /\ op' = "again" /\ ret.status = "complete")
          => (ret'.status = "complete" /\ dest' = dest)]_vars

\* The archive that names sub twice has been decoded twice into a
\* destination that held sub/a.txt before.
C18_Witness ==
    /\ op = "again"
    /\ fs = (output_file :> TextEscape)
    /\ ret.status = "complete"
    /\ <<output_dir, <<"sub">>>> \in dest.dirs
    /\ DOMAIN dest.files = { <<output_dir, <<"sub">>, <<"a", DOT, "txt">>>>,
                             << <<SEP>>, <<"abs">>, <<"f">> >> }
    /\ dest.files[<<output_dir, <<"sub">>, <<"a", DOT, "txt">>>>] = <<"old", NL>>
    /\ dest.files[<< <<SEP>>, <<"abs">>, <<"f">> >>] = <<"x", NL>>

----------------------------------------------------------------------------
(* One compress_project of a source tree and one decompress_project of the *)
(* archive into an empty destination                                       *)

Hello == <<"hello">>
TwoLines == <<"a", NL, "b", NL>>
\* A text with a line that is the FileEnd marker.
EndInside == <<"a", NL>> \o MARKER_FILE_END \o <<NL, "b">>
\* A text that is itself the frame of an archive.
OldArchive == MARKER_PROJECT_START \o <<NL>> \o MARKER_PROJECT_END
\* Bytes that are not UTF-8.
NotText == <<"a", "0xFF", NL>>

a_txt == <<"a", DOT, "txt">>
b_TXT == <<"b", DOT, "TXT">>
c_bin == <<"c", DOT, "bin">>

EmptyTree == (<<>> :> Dir(<<>>, <<>>))

OneFile(bytes) == (<<>> :> Dir(<<>>, <<File(a_txt, bytes)>>))

\* Scenario A of the specification: a.txt and sub/c.bin, and an empty
\* directory beside them.
ScenarioA ==
    (<<>> :> Dir(<< <<"sub">>, <<"empty">> >>, <<File(a_txt, Hello)>>))
    @@ (<< <<"sub">> >> :> Dir(<<>>, <<File(c_bin, <<"0xFF">>)>>))
    @@ (<< <<"empty">> >> :> Dir(<<>>, <<>>))

\* Directories named build, in two spellings and at two depths, with text
\* files below them, and a file named build in src.
BuildTree ==
    (<<>> :> Dir(<< <<"src">>, <<"build">> >>, <<File(a_txt, Hello)>>))
    @@ (<< <<"src">> >> :>
            Dir(<< <<"Build">> >>,
                <<File(b_TXT, TwoLines), File(<<"build">>, Hello)>>))
    @@ (<< <<"src">>, <<"Build">> >> :> Dir(<< <<"nested">> >>, <<>>))
    @@ (<< <<"src">>, <<"Build">>, <<"nested">> >> :>
            Dir(<<>>, <<File(a_txt, Hello)>>))
    @@ (<< <<"build">> >> :> Dir(<<>>, <<File(a_txt, Hello)>>))

RoundTripTrees ==
    {EmptyTree, ScenarioA, BuildTree}
        \cup {OneFile(b) : b \in {<<>>, Hello, TwoLines, EndInside, OldArchive, NotText}}

WhiteLists == { <<>>, << <<DOT, "txt">> >> }
BlackLists == { <<>>, << <<"build">> >>, << <<DOT, "bin">>, <<"BUILD">> >> }

RoundTripInit ==
    /\ MAX_LINES_PER_FILE \in {ScaledMaxLines, WideMaxLines}
    /\ fs = <<>>
    /\ dest = EmptyDest
    /\ op = "init"
    /\ args \in [tree : RoundTripTrees, white_list : WhiteLists,
                 black_list : BlackLists, compress_binary : BOOLEAN]
    /\ ret = NoRet
    /\ lines = <<>>
    /\ written = <<>>
    /\ runs = 0

RoundTripCompress ==
    /\ op = "init"
    /\ op' = "compress"
    /\ fs' = compress_project(fs, args.tree, output_file, args.white_list,
                              args.black_list, args.compress_binary)
    /\ lines' = OutputLines(args.tree, args.white_list, args.black_list,
                            args.compress_binary)
    /\ written' = FilesWritten(output_file, lines')
    /\ runs' = runs + 1
    /\ UNCHANGED <<MAX_LINES_PER_FILE, dest, args, ret>>

RoundTripDecompress ==
    /\ op = "compress"
    /\ op' = "decompress"
    /\ LET r == decompress_project(fs, dest, output_file, output_dir) IN
        /\ dest' = r.dest
        /\ ret' = [status |-> r.status]
    /\ UNCHANGED <<MAX_LINES_PER_FILE, fs, args, lines, written, runs>>

RoundTripNext == RoundTripCompress \/ RoundTripDecompress

SpecRoundTrip == RoundTripInit /\ [][RoundTripNext]_vars

\* The directories of a tree, as paths below the destination root.
DestDirs(tree) == {<<output_dir>> \o path : path \in DOMAIN tree}

\* The files of a tree: <<path below the destination root, bytes>>.
DestFiles(tree) ==
    UNION { { <<(<<output_dir>> \o path) \o <<tree[path].files[i].name>>,
                tree[path].files[i].bytes>> :
              i \in 1..Len(tree[path].files) } : path \in DOMAIN tree }

NoFilters == args.white_list = <<>> /\ args.black_list = <<>>

\* C1 as stated: for a tree of text-decodable files, compress_project with
\* empty filters followed by decompress_project into an empty destination
\* yields the directories and files of the tree, each file holding its
\* original content and one added line break.
C1_TextRoundTrip ==
    (/\ op = "decompress"
     /\ NoFilters
     /\ \A e \in DestFiles(args.tree) : ~DecodeRaises(e[2])) =>
        /\ dest.dirs = DestDirs(args.tree)
        /\ DOMAIN dest.files = {e[1] : e \in DestFiles(args.tree)}
        /\ \A e \in DestFiles(args.tree) : dest.files[e[1]] = e[2] \o <<NL>>

\* C2 as stated: with compress_binary, a file that is not text-decodable is
\* archived as a BinaryStart line, one base64 line and a BinaryEnd line, and
\* decompress_project creates the file at the same relative path with the
\* same bytes.
C2_BinaryRoundTrip ==
    (op = "decompress" /\ NoFilters /\ args.compress_binary) =>
        \A e \in DestFiles(args.tree) :
            DecodeRaises(e[2]) =>
                /\ \E i \in 1..(Len(lines) - 2) :
                      /\ StartsWith(lines[i], MARKER_FILE_BINARY_START_PREFIX)
                      /\ lines[i + 1] = B64Encode(e[2]) \o <<NL>>
                      /\ lines[i + 2] = MARKER_FILE_BINARY_END \o <<NL>>
                /\ e[1] \in DOMAIN dest.files
                /\ dest.files[e[1]] = e[2]

\* The path a Dir, FileStart or BinaryStart entry carries, as its segments.
EntrySegments(entry) == Resolve(Strip(DropFirst(entry, 1), {SP, GT, NL}))

IsDirEntry(entry) == StartsWith(entry, MARKER_DIR_PREFIX)

IsFileEntry(entry) ==
    \/ StartsWith(entry, MARKER_FILE_START_PREFIX)
    \/ StartsWith(entry, MARKER_FILE_BINARY_START_PREFIX)

Blacklisted(seg) ==
    \E i \in 1..Len(args.black_list) : Lower(seg) = Lower(args.black_list[i])

\* C7 as stated: no Dir, FileStart or BinaryStart marker carries a path with
\* a segment, directory or file name, that equals a blacklist entry in any
\* letter case.
C7_Original ==
    op = "compress" =>
        \A i \in 1..Len(lines) :
            (IsDirEntry(lines[i]) \/ IsFileEntry(lines[i])) =>
                \A k \in 1..Len(EntrySegments(lines[i])) :
                    ~Blacklisted(EntrySegments(lines[i])[k])

\* C7 (amended): no Dir marker carries a path with a segment that equals a
\* blacklist entry in any letter case, and no FileStart or BinaryStart marker
\* carries a path with a directory segment (any segment but the file name)
\* that does; a pruned directory contributes no entry for itself or for
\* anything below it.  The file name itself is tested by extension only.
C7_FolderBlacklist ==
    op = "compress" =>
        \A i \in 1..Len(lines) :
            LET segs == EntrySegments(lines[i]) IN
            /\ IsDirEntry(lines[i]) => \A k \in 1..Len(segs) : ~Blacklisted(segs[k])
            /\ IsFileEntry(lines[i]) =>
                  \A k \in 1..(Len(segs) - 1) : ~Blacklisted(segs[k])

\* BuildTree under whitelist [.txt] and blacklist [build]: src/b.TXT is in
\* the archive, and nothing of build, src/Build or src/Build/nested is.
C7_Witness ==
    /\ op = "compress"
    /\ args.tree = BuildTree
    /\ args.white_list = << <<DOT, "txt">> >>
    /\ args.black_list = << <<"build">> >>
    /\ \E i \in 1..Len(lines) :
          lines[i] = FileStartLine(<<"src", SEP, "b", DOT, "TXT">>)
    /\ \A i \in 1..Len(lines) :
          lines[i] \notin { DirLine(<<"build">>),
                            DirLine(<<"src", SEP, "Build">>),
                            DirLine(<<"src", SEP, "Build", SEP, "nested">>),
                            FileStartLine(<<"src", SEP, "Build", SEP, "nested",
                                            SEP, "a", DOT, "txt">>) }

\* The tree without its files that are not text-decodable.
TextOnly(tree) ==
    [p \in DOMAIN tree |->
        LET IsText(f) == ~DecodeRaises(f.bytes) IN
        Dir(tree[p].sub, SelectSeq(tree[p].files, IsText))]

\* The list without its entries at the indices of S.
Without(list, S) ==
    LET F[k \in 0..Len(list)] ==
            IF k = 0 THEN <<>>
            ELSE IF k \in S THEN F[k - 1] ELSE Append(F[k - 1], list[k])
    IN  F[Len(list)]

\* The files of the tree that are not text-decodable, pass the filter and lie
\* in no pruned directory.
ArchivedUndecodable ==
    { e \in DestFiles(args.tree) :
        /\ DecodeRaises(e[2])
        /\ should_include_file(e[1][Len(e[1])], args.white_list, args.black_list)
        /\ \A k \in 2..(Len(e[1]) - 1) : ~Blacklisted(e[1][k]) }

\* C11: a file that cannot be read as text never aborts compress_project:
\* the archive is written and ends with the ProjectEnd line; with
\* compress_binary each such file contributes exactly one block of a
\* BinaryStart line, its base64 line and a BinaryEnd line, without it no
\* entry at all; and the entries of everything else are those of the same
\* tree without these files.
C11_EncodeFailureIsolated ==
    op = "compress" =>
        LET bin == {i \in 1..Len(lines) :
                       StartsWith(lines[i], MARKER_FILE_BINARY_START_PREFIX)}
            blocks == bin \cup {i + 1 : i \in bin} \cup {i + 2 : i \in bin}
        IN  /\ lines[Len(lines)] = ProjectEndLine
            /\ written # <<>>
            /\ EndsWith(fs[written[Len(written)]], ProjectEndLine)
            /\ Without(lines, blocks)
                  = OutputLines(TextOnly(args.tree), args.white_list,
                                args.black_list, args.compress_binary)
            /\ ~args.compress_binary => bin = {}
            /\ args.compress_binary =>
                  /\ Cardinality(bin) = Cardinality(ArchivedUndecodable)
                  /\ \A e \in ArchivedUndecodable :
                        \E i \in bin :
                            /\ i + 2 <= Len(lines)
                            /\ lines[i] = BinaryStartLine(RelDir(Tail(e[1])))
                            /\ lines[i + 1] = B64Encode(e[2]) \o <<NL>>
                            /\ lines[i + 2] = MARKER_FILE_BINARY_END \o <<NL>>

\* Scenario A with compress_binary: sub/c.bin, the one byte 0xFF, is in the
\* archive as one block, between the entries of a.txt and of empty.
C11_Witness ==
    /\ op = "compress"
    /\ args.tree = ScenarioA
    /\ NoFilters
    /\ args.compress_binary
    /\ \E i \in 1..(Len(lines) - 3) :
          /\ lines[i] = BinaryStartLine(<<"sub", SEP, "c", DOT, "bin">>)
          /\ lines[i + 1] = <<"/", "w", "=", "=", NL>>
          /\ lines[i + 2] = MARKER_FILE_BINARY_END \o <<NL>>
          /\ lines[i + 3] = DirLine(<<"empty">>)
    /\ \E i \in 1..Len(lines) : lines[i] = FileStartLine(a_txt)


\* C12 as stated, on the thresholds above the banner's line count: every
\* archive file that compress_project writes, the single output file or a
\* part, holds at most MAX_LINES_PER_FILE lines as readlines counts them.
C12_PartSizeBound ==
    (/\ op = "compress"
     /\ MAX_LINES_PER_FILE > Len(ReadLines(INTRODUCTION \o <<NL>>))) =>
        \A k \in 1..Len(written) :
            Len(ReadLines(fs[written[k]])) <= MAX_LINES_PER_FILE

\* C13 as stated: in the line sequence compress_project builds, exactly one
\* line is the ProjectStart marker, and it comes before every Dir, FileStart
\* and BinaryStart marker line, and exactly one line is the ProjectEnd
\* marker, and it is the last line.
C13_ProjectFraming ==
    op = "compress" =>
        LET all == ReadLines(Join(lines))
            starts == {i \in 1..Len(all) :
                          RStrip(all[i], {NL}) = MARKER_PROJECT_START}
            ends == {i \in 1..Len(all) :
                        RStrip(all[i], {NL}) = MARKER_PROJECT_END}
        IN  /\ Cardinality(starts) = 1
            /\ \A i \in 1..Len(all) :
                  (\/ StartsWith(all[i], MARKER_DIR_PREFIX)
                   \/ StartsWith(all[i], MARKER_FILE_START_PREFIX)
                   \/ StartsWith(all[i], MARKER_FILE_BINARY_START_PREFIX))
                      => \A j \in starts : j < i
            /\ ends = {Len(all)}

----------------------------------------------------------------------------
(* The program over time: compress_project runs that write to the same     *)
(* output path, from trees whose archives have one, two and three parts,   *)
(* and decompress_project runs into the same or a new empty destination    *)

MaxRuns == 3

SeqTrees == {EmptyTree, OneFile(Hello), ScenarioA}

Init ==
    /\ MAX_LINES_PER_FILE = ScaledMaxLines
    /\ fs = <<>>
    /\ dest = EmptyDest
    /\ op = "init"
    /\ args = NoArgs
    /\ ret = NoRet
    /\ lines = <<>>
    /\ written = <<>>
    /\ runs = 0

Compress(tree, compress_binary) ==
    /\ runs < MaxRuns
    /\ op' = "compress"
    /\ args' = [tree |-> tree, white_list |-> <<>>, black_list |-> <<>>,
                compress_binary |-> compress_binary]
    /\ fs' = compress_project(fs, tree, output_file, <<>>, <<>>, compress_binary)
    /\ lines' = OutputLines(tree, <<>>, <<>>, compress_binary)
    /\ written' = FilesWritten(output_file, lines')
    /\ runs' = runs + 1
    /\ ret' = NoRet
    /\ UNCHANGED <<MAX_LINES_PER_FILE, dest>>

Decompress(fresh) ==
    /\ op' = "decompress"
    /\ LET r == decompress_project(fs, IF fresh THEN EmptyDest ELSE dest,
                                   output_file, output_dir) IN
        /\ dest' = r.dest
        /\ ret' = [status |-> r.status, fresh |-> fresh]
    /\ UNCHANGED <<MAX_LINES_PER_FILE, fs, args, lines, written, runs>>

Next ==
    \/ \E tree \in SeqTrees, compress_binary \in BOOLEAN :
            Compress(tree, compress_binary)
    \/ \E fresh \in BOOLEAN : Decompress(fresh)

Spec == Init /\ [][Next]_vars

\* C4 as stated: after any sequence of compress operations on the same output
\* path, combine_multipart_archive returns exactly the line sequence of the
\* most recent compress, with no line of a file an earlier compress wrote.
C4_LatestArchiveOnly ==
    runs >= 1 =>
        combine_multipart_archive(fs, output_file).lines = ReadLines(Join(lines))

----------------------------------------------------------------------------
(* decompress_project step by step: one action per iteration of the loop   *)
(* that looks for the start marker, of the scanning loop and of the        *)
(* content loop.  lines is the resolved line sequence, args holds the      *)
(* locals of the function, op the place the control is at.                 *)

MaxScan == 3

\* The lines an input is made of: two markers with paths, an unknown line
\* (content when inside a block), FileEnd and ProjectEnd.
ScanLinePool ==
    { DirLine(<<"sub">>),
      FileStartLine(<<"sub", SEP, "a", DOT, "txt">>),
      <<"x", NL>>,
      FileEndLine,
      ProjectEndLine }

\* Inputs with a banner line and the start marker before the body, and
\* without them.
ScanInputs ==
    { pre \o body :
        pre \in { <<>>, << <<"banner", NL>>, ProjectStartLine >> },
        body \in SeqsUpTo(ScanLinePool, MaxScan) }

ScanInit ==
    /\ MAX_LINES_PER_FILE = ScaledMaxLines
    /\ fs = <<>>
    /\ dest = EmptyDest
    /\ op = "init"
    /\ args = [start_index |-> 0, idx |-> 0, i |-> 0, line |-> <<>>,
               full_dir |-> <<>>, full_file_path |-> <<>>,
               content_lines |-> <<>>]
    /\ ret = NoRet
    /\ lines = <<>>
    /\ written = <<>>
    /\ runs = 0

\* Lines 188-192: the call, with the line sequence that
\* combine_multipart_archive returned for it.
ScanCall ==
    /\ op = "init"
    /\ op' = "find"
    /\ lines' \in ScanInputs
    /\ UNCHANGED <<MAX_LINES_PER_FILE, fs, dest, args, ret, written, runs>>

\* Lines 193-197: one iteration of the for loop, or its end.
FindStartStep ==
    /\ op = "find"
    /\ IF args.idx >= Len(lines)
       THEN op' = "check" /\ args' = args
       ELSE IF Strip(lines[args.idx + 1], Whitespace) = MARKER_PROJECT_START
       THEN op' = "check" /\ args' = [args EXCEPT !.start_index = args.idx]
       ELSE op' = "find" /\ args' = [args EXCEPT !.idx = @ + 1]
    /\ UNCHANGED <<MAX_LINES_PER_FILE, fs, dest, ret, lines, written, runs>>

\* Lines 199-203.
CheckStart ==
    /\ op = "check"
    /\ IF args.start_index = 0
       THEN op' = "done" /\ ret' = [status |-> "invalid_format"] /\ args' = args
       ELSE /\ op' = "outer"
            /\ ret' = ret
            /\ args' = [args EXCEPT !.i = args.start_index + 1]
    /\ UNCHANGED <<MAX_LINES_PER_FILE, fs, dest, lines, written, runs>>

\* Line 204: the condition of the while loop is false.
OuterExit ==
    /\ op = "outer"
    /\ args.i >= Len(lines)
    /\ op' = "done"
    /\ ret' = [status |-> "complete"]
    /\ UNCHANGED <<MAX_LINES_PER_FILE, fs, dest, args, lines, written, runs>>

\* Lines 204-205: a new iteration of the scanning loop reads its line.
ReadLine ==
    /\ op = "outer"
    /\ args.i < Len(lines)
    /\ op' = "line"
    /\ args' = [args EXCEPT !.line = RStrip(lines[args.i + 1], {NL})]
    /\ UNCHANGED <<MAX_LINES_PER_FILE, fs, dest, ret, lines, written, runs>>

\* Lines 206-207.
ProjectEndStep ==
    /\ op = "line"
    /\ args.line = MARKER_PROJECT_END
    /\ op' = "done"
    /\ ret' = [status |-> "complete"]
    /\ UNCHANGED <<MAX_LINES_PER_FILE, fs, dest, args, lines, written, runs>>

\* Lines 208-210.
DirStep ==
    /\ op = "line"
    /\ args.line # MARKER_PROJECT_END
    /\ StartsWith(args.line, MARKER_DIR_PREFIX)
    /\ op' = "makedirs"
    /\ args' = [args EXCEPT !.full_dir =
                  PathJoin(output_dir,
                      Strip(DropFirst(args.line, Len(MARKER_DIR_PREFIX)), {SP, GT}))]
    /\ UNCHANGED <<MAX_LINES_PER_FILE, fs, dest, ret, lines, written, runs>>

\* Lines 211-212.
MakeDirStep ==
    /\ op = "makedirs"
    /\ IF MakedirsRaises(dest, args.full_dir)
       THEN /\ op' = "done"
            /\ ret' = [status |-> "raised"]
            /\ UNCHANGED <<dest, args>>
       ELSE /\ op' = "outer"
            /\ dest' = Makedirs(dest, args.full_dir)
            /\ args' = [args EXCEPT !.i = @ + 1]
            /\ ret' = ret
    /\ UNCHANGED <<MAX_LINES_PER_FILE, fs, lines, written, runs>>

\* Lines 213-215.
FileStartStep ==
    /\ op = "line"
    /\ args.line # MARKER_PROJECT_END
    /\ ~StartsWith(args.line, MARKER_DIR_PREFIX)
    /\ StartsWith(args.line, MARKER_FILE_START_PREFIX)
    /\ op' = "makeparent"
    /\ args' = [args EXCEPT !.full_file_path =
                  PathJoin(output_dir,
                      Strip(DropFirst(args.line, Len(MARKER_FILE_START_PREFIX)),
                            {SP, GT}))]
    /\ UNCHANGED <<MAX_LINES_PER_FILE, fs, dest, ret, lines, written, runs>>

\* Lines 216-218.
MakeParentStep ==
    /\ op = "makeparent"
    /\ IF MakedirsRaises(dest, Dirname(args.full_file_path))
       THEN /\ op' = "done"
            /\ ret' = [status |-> "raised"]
            /\ UNCHANGED <<dest, args>>
       ELSE /\ op' = "inner"
            /\ dest' = Makedirs(dest, Dirname(args.full_file_path))
            /\ args' = [args EXCEPT !.i = @ + 1, !.content_lines = <<>>]
            /\ ret' = ret
    /\ UNCHANGED <<MAX_LINES_PER_FILE, fs, lines, written, runs>>

\* Line 219: the condition of the content loop.
MoreContent ==
    /\ args.i < Len(lines)
    /\ Strip(lines[args.i + 1], Whitespace) # MARKER_FILE_END

\* Lines 219-221: one iteration of the content loop.
ContentStep ==
    /\ op = "inner"
    /\ MoreContent
    /\ op' = "inner"
    /\ args' = [args EXCEPT !.content_lines = Append(@, lines[args.i + 1]),
                            !.i = @ + 1]
    /\ UNCHANGED <<MAX_LINES_PER_FILE, fs, dest, ret, lines, written, runs>>

\* Lines 222-224: the content loop has ended, at the FileEnd line or at the
\* end of the input.
WriteStep ==
    /\ op = "inner"
    /\ ~MoreContent
    /\ IF OpenRaises(dest, args.full_file_path)
       THEN /\ op' = "done"
            /\ ret' = [status |-> "raised"]
            /\ UNCHANGED <<dest, args>>
       ELSE /\ op' = "outer"
            /\ dest' = WriteDest(dest, args.full_file_path, Join(args.content_lines))
            /\ args' = [args EXCEPT !.i = @ + 1]
            /\ ret' = ret
    /\ UNCHANGED <<MAX_LINES_PER_FILE, fs, lines, written, runs>>

\* An else branch that goes back to the loop with the index where it is.
OtherStepStay ==
    /\ op = "line"
    /\ args.line # MARKER_PROJECT_END
    /\ ~StartsWith(args.line, MARKER_DIR_PREFIX)
    /\ ~StartsWith(args.line, MARKER_FILE_START_PREFIX)
    /\ op' = "outer"
    /\ UNCHANGED <<MAX_LINES_PER_FILE, fs, dest, args, ret, lines, written, runs>>

\* Lines 225-226.
OtherStep ==
    /\ op = "line"
    /\ args.line # MARKER_PROJECT_END
    /\ ~StartsWith(args.line, MARKER_DIR_PREFIX)
    /\ ~StartsWith(args.line, MARKER_FILE_START_PREFIX)
    /\ op' = "outer"
    /\ args' = [args EXCEPT !.i = @ + 1]
    /\ UNCHANGED <<MAX_LINES_PER_FILE, fs, dest, ret, lines, written, runs>>

ScanNext ==
    \/ ScanCall
    \/ FindStartStep
    \/ CheckStart
    \/ OuterExit
    \/ ReadLine
    \/ ProjectEndStep
    \/ DirStep
    \/ MakeDirStep
    \/ FileStartStep
    \/ MakeParentStep
    \/ ContentStep
    \/ WriteStep
    \/ OtherStep

\* The function runs on one thread and nothing else can stop it: a step
\* that can be taken is taken.
SpecScan == ScanInit /\ [][ScanNext]_vars /\ WF_vars(ScanNext)

\* C20: on every finite input (with a ProjectStart line or without one,
\* with unterminated blocks, unknown lines, no ProjectEnd line)
\* decompress_project comes to its end, and every iteration of the scanning
\* loop and of the content loop that does not leave the function ends with
\* the index at least one line further, never beyond one past the end; no
\* step moves the index back.
C20_DecoderTerminates ==
    /\ <>(op = "done")
    /\ [][(op \in {"line", "makedirs", "makeparent", "inner"}
              /\ op' \in {"outer", "inner"}) =>
            (args'.i > args.i /\ args'.i <= Len(lines) + 1)]_vars
    /\ [][args'.i >= args.i]_vars

\* The input ended inside a file block, after an unknown line, and with no
\* ProjectEnd line: the function has returned.
C20_Witness ==
    /\ op = "done"
    /\ lines = << <<"banner", NL>>, ProjectStartLine, <<"x", NL>>,
                  FileStartLine(<<"sub", SEP, "a", DOT, "txt">>), <<"x", NL>> >>
    /\ ret.status = "complete"
    /\ args.i = Len(lines) + 1

====
